---- MODULE Spec2Model ----
(***************************************************************************)
(* A model of the notebook inspect_const_weights: the data simulation and  *)
(* split, the manual forward pass compute_activations over numpy arrays,   *)
(* and the training of the 1-2-1 network with the 'adam' optimizer and the *)
(* 'mae' loss.  Numbers are integers: a value v stands for the real number *)
(* v times a fixed unit, so sums, products by an integer input, signs and  *)
(* comparisons with zero are exact; the rounding of the floating-point     *)
(* arithmetic of the notebook is not modelled.  The sizes the notebook     *)
(* fixes (n_samples = 2000, epochs = 10, batch_size = 25) are drawn from   *)
(* small ranges.                                                           *)
(*                                                                         *)
(* Three specifications share the variables: Spec (calls of                *)
(* compute_activations on one bundle), SpecData (the simulation and split) *)
(* and SpecTrain (fit); each leaves the variables of the others alone.     *)
(***************************************************************************)
EXTENDS Integers, Sequences, FiniteSets, TLC

VARIABLES
    \* ---- the manual forward pass (cells 6 and 7)
    heap,         \* the numpy arrays alive between calls: heap[a] is the array at address a
    created,      \* the four arrays of the bundle as they were when the bundle was made
    input,        \* the argument x of the last call of compute_activations
    activations,  \* the argument activations of the last call
    hidden,       \* the first component of the value returned by the last call
    final,        \* the second component of the value returned by the last call
    status,       \* "made", "returned", "ValueError", "AssertionError"
    \* ---- the data simulation and split (cell 2)
    n_samples, x, y, ind_train, ind_test, x_train, x_test, y_train, y_test, dstatus,
    \* ---- the training (cells 3, 4 and 5)
    model,        \* the weights of the network being trained
    initial_weights, \* what make_network returned as the initial weights
    model_act,    \* the activations the network was made with
    moment,       \* adam's first moment of every weight, times 10^step
    step,         \* the number of gradient steps taken
    epoch,        \* the number of epochs completed
    pending,      \* the indices of the batches of the current epoch not yet used
    epoch_loss,   \* the loss accumulated over the batches of the current epoch
    history,      \* the loss reported at the end of every completed epoch
    train_set     \* the training inputs (the targets are equal to them)

fwdvars == <<heap, created, input, activations, hidden, final, status>>
datavars == <<n_samples, x, y, ind_train, ind_test, x_train, x_test, y_train, y_test, dstatus>>
trainvars == <<model, initial_weights, model_act, moment, step, epoch, pending,
               epoch_loss, history, train_set>>
vars == <<fwdvars, datavars, trainvars>>

----------------------------------------------------------------------------
(* Bounds of the model. *)

\* the biases of a bundle are drawn from -MaxVal .. MaxVal
MaxVal == 2
\* an array of a bundle of any shape has 1 .. MaxDim components
MaxDim == 3

\* the sample counts n_samples run from -1 to MaxN
MaxN == 5

\* the values numpy.random.uniform draws, in units of a third
YValues == {1, 2}

\* the training set holds TrainSamples pairs, a batch BatchSize of them, and
\* fit runs MaxEpochs epochs
TrainSamples == 2
BatchSize == 1
MaxEpochs == 2

\* the inputs x compute_activations is called with
Inputs == {-1, 0, 1, 2}

Values == (0 - MaxVal) .. MaxVal

\* the weights W1 and W2 of a bundle of the 1-2-1 architecture
W1Values == {-2, -1, 1}
W2Values == {-1, 1}

\* an array of a bundle of any other shape holds c, 2c, 3c, ... for a c of
FillValues == {-1, 1}

\* the values of the argument activations
Policies == {"relu", "linear", "tanh"}

----------------------------------------------------------------------------
(* numpy arrays: a shape (one or two dimensions) and the data in row-major *)
(* order.                                                                  *)

NoArray == [shape |-> <<>>, data |-> <<>>]

Rows(a) == IF Len(a.shape) = 2 THEN a.shape[1] ELSE 1
Cols(a) == a.shape[Len(a.shape)]
At(a, i, j) == a.data[(i - 1) * Cols(a) + j]

\* the two-dimensional array of r rows and c columns with the elements f[<<i, j>>]
Matrix(r, c, f) ==
    [shape |-> <<r, c>>,
     data  |-> [k \in 1 .. r * c |-> f[<<((k - 1) \div c) + 1, ((k - 1) % c) + 1>>]]]

\* numpy's broadcasting of two dimensions: 0 when they cannot be broadcast
BroadcastDim(p, q) ==
    IF p = q THEN p ELSE IF p = 1 THEN q ELSE IF q = 1 THEN p ELSE 0

\* the result of one numpy operation on the heap h: the heap after it, the
\* address of the array it returns, and the exception it raised ("" for none)
Ok(h, a) == [heap |-> h, ref |-> a, err |-> ""]
Raise(h, e) == [heap |-> h, ref |-> 0, err |-> e]
New(h, a) == Ok(Append(h, a), Len(h) + 1)

\* a variant of NdDotScalar that multiplies W itself and returns it
NdDotScalarInPlace(h, w, s) ==
    Ok([h EXCEPT ![w].data = [k \in DOMAIN h[w].data |-> h[w].data[k] * s]], w)
\* a variant of NdDotScalar that returns a copy of W
NdDotScalarIgnoresX(h, w, s) ==
    New(h, h[w])
\* W.dot(x) with a scalar x: a new array, W multiplied by x element-wise
NdDotScalar(h, w, s) ==
    New(h, [shape |-> h[w].shape, data |-> [k \in DOMAIN h[w].data |-> h[w].data[k] * s]])

\* a variant of NdAdd that returns a copy of a
NdAddLeftOnly(h, a, b) ==
    New(h, h[a])
\* a + b: a new array, the element-wise sum of a and b broadcast to a common
\* shape; ValueError when the shapes cannot be broadcast together
NdAdd(h, a, b) ==
    LET A == h[a]
        B == h[b]
        r == BroadcastDim(Rows(A), Rows(B))
        c == BroadcastDim(Cols(A), Cols(B))
        M == Matrix(r, c, [p \in (1 .. r) \X (1 .. c) |->
                 At(A, IF Rows(A) = 1 THEN 1 ELSE p[1], IF Cols(A) = 1 THEN 1 ELSE p[2])
                 + At(B, IF Rows(B) = 1 THEN 1 ELSE p[1], IF Cols(B) = 1 THEN 1 ELSE p[2])])
    IN  IF r = 0 \/ c = 0 THEN Raise(h, "ValueError")
        ELSE IF Len(A.shape) = 1 /\ Len(B.shape) = 1
             THEN New(h, [shape |-> <<c>>, data |-> M.data])
             ELSE New(h, M)

RECURSIVE SumSeq(_)
SumSeq(s) == IF s = <<>> THEN 0 ELSE s[1] + SumSeq(Tail(s))

\* a.dot(b) of two two-dimensional arrays: a new array, the matrix product;
\* ValueError when the inner dimensions differ (dot does not broadcast)
\* a variant of NdDot that multiplies the first elements only
NdDotFirstTermOnly(h, a, b) ==
    LET A == h[a]
        B == h[b]
    IN  IF Cols(A) # Rows(B) THEN Raise(h, "ValueError")
        ELSE New(h, Matrix(Rows(A), Cols(B),
                           [p \in (1 .. Rows(A)) \X (1 .. Cols(B)) |->
                               At(A, p[1], 1) * At(B, 1, p[2])]))
NdDot(h, a, b) ==
    LET A == h[a]
        B == h[b]
    IN  IF Cols(A) # Rows(B) THEN Raise(h, "ValueError")
        ELSE New(h, Matrix(Rows(A), Cols(B),
                           [p \in (1 .. Rows(A)) \X (1 .. Cols(B)) |->
                               SumSeq([k \in 1 .. Cols(A) |-> At(A, p[1], k) * At(B, k, p[2])])]))

\* a variant of relu that sets nothing to zero
reluKeepsNegatives(h, a) ==
    Ok(h, a)
\* relu(x): the negative elements of x are set to zero in x itself, and x is
\* returned
relu(h, a) ==
    Ok([h EXCEPT ![a].data = [k \in DOMAIN h[a].data |->
                                IF h[a].data[k] < 0 THEN 0 ELSE h[a].data[k]]], a)

\* The bundle is the list weights of four addresses: W1, b1, W2, b2.
Weights == <<1, 2, 3, 4>>

\* the value compute_activations returns or the exception it raises, and the
\* heap it leaves
Returned(h, hid, fin) == [heap |-> h, hidden |-> hid, final |-> fin, err |-> ""]
Raised(h, e) == [heap |-> h, hidden |-> 0, final |-> 0, err |-> e]

\* a variant of FinalLayer that does not apply relu to the final output
FinalLayerNoOutputRelu(h, hid, weights, act) ==
    LET W2 == weights[3]
        b2 == weights[4]
        hd == IF act = "relu" THEN relu(h, hid) ELSE Ok(h, hid)
        d  == NdDot(hd.heap, hd.ref, W2)
        s  == NdAdd(d.heap, d.ref, b2)
    IN  IF d.err # "" THEN Raised(d.heap, d.err)
        ELSE IF s.err # "" THEN Raised(s.heap, s.err)
        ELSE Returned(s.heap, hd.ref, s.ref)
\* the rest of compute_activations once hidden = W1.dot(x) + b1 is computed
FinalLayer(h, hid, weights, act) ==
    LET W2 == weights[3]
        b2 == weights[4]
        hd == IF act = "relu" THEN relu(h, hid) ELSE Ok(h, hid)
        d  == NdDot(hd.heap, hd.ref, W2)
        s  == NdAdd(d.heap, d.ref, b2)
        f  == IF act = "relu" THEN relu(s.heap, s.ref) ELSE s
    IN  IF d.err # "" THEN Raised(d.heap, d.err)
        ELSE IF s.err # "" THEN Raised(s.heap, s.err)
        ELSE Returned(f.heap, hd.ref, f.ref)

compute_activations(h, xin, weights, act) ==
    LET W1 == weights[1]
        b1 == weights[2]
        m  == NdDotScalar(h, W1, xin)
        s  == NdAdd(m.heap, m.ref, b1)
    IN  IF act \notin {"relu", "linear"} THEN Raised(h, "AssertionError")
        ELSE IF s.err # "" THEN Raised(s.heap, s.err)
        ELSE FinalLayer(s.heap, s.ref, weights, act)

----------------------------------------------------------------------------
(* The bundles compute_activations is given.                                *)

Row(v) == [shape |-> <<1, Len(v)>>, data |-> v]
Column(v) == [shape |-> <<Len(v), 1>>, data |-> v]
Vector(v) == [shape |-> <<Len(v)>>, data |-> v]

\* the arrays of a network made by make_network: the kernel of the first layer
\* has shape (1, 2), its bias (2,), the kernel of the second layer (2, 1), its
\* bias (1,)
Bundle(W1, b1, W2, b2) == <<Row(W1), Vector(b1), Column(W2), Vector(b2)>>

WellShaped(w) ==
    /\ w[1].shape = <<1, 2>>
    /\ w[2].shape = <<2>>
    /\ w[3].shape = <<2, 1>>
    /\ w[4].shape = <<1>>

WellShapedBundles ==
    { Bundle(W1, b1, W2, b2) :
        W1 \in [1 .. 2 -> W1Values], b1 \in [1 .. 2 -> Values],
        W2 \in [1 .. 2 -> W2Values], b2 \in [1 .. 1 -> Values] }

Filled(n, c) == [k \in 1 .. n |-> c * k]

OtherBundles ==
    { w \in { Bundle(Filled(n[1], c), Filled(n[2], c), Filled(n[3], c), Filled(n[4], c)) :
                n \in [1 .. 4 -> 1 .. MaxDim], c \in FillValues } :
        ~WellShaped(w) }

InitFwd ==
    /\ heap \in WellShapedBundles \cup OtherBundles
    /\ created = heap
    /\ input = 0
    /\ activations = ""
    /\ hidden = NoArray
    /\ final = NoArray
    /\ status = "made"

IdleData ==
    /\ n_samples = 0 /\ x = <<>> /\ y = <<>>
    /\ ind_train = <<>> /\ ind_test = <<>>
    /\ x_train = <<>> /\ x_test = <<>> /\ y_train = <<>> /\ y_test = <<>>
    /\ dstatus = "idle"

IdleTrain ==
    /\ model = <<>> /\ initial_weights = <<>> /\ model_act = ""
    /\ moment = <<>> /\ step = 0 /\ epoch = 0 /\ pending = {}
    /\ epoch_loss = 0 /\ history = <<>> /\ train_set = <<>>

\* one call of compute_activations on the bundle; the arrays no name refers to
\* after the call are dropped from the heap
ComputeActivations(xin, act) ==
    \E r \in {compute_activations(heap, xin, Weights, act)} :
        /\ input' = xin
        /\ activations' = act
        /\ heap' = SubSeq(r.heap, 1, Len(Weights))
        /\ hidden' = IF r.err = "" THEN r.heap[r.hidden] ELSE NoArray
        /\ final' = IF r.err = "" THEN r.heap[r.final] ELSE NoArray
        /\ status' = IF r.err = "" THEN "returned" ELSE r.err
        /\ UNCHANGED <<created, datavars, trainvars>>

Init == InitFwd /\ IdleData /\ IdleTrain

Next == \E xin \in Inputs, act \in Policies : ComputeActivations(xin, act)

Spec == Init /\ [][Next]_vars

----------------------------------------------------------------------------
(* The forward pass: what the claims are stated with.                       *)

W1v == created[1].data
b1v == created[2].data
W2v == created[3].data
b2v == created[4].data

Dot2(u, v) == u[1] * v[1] + u[2] * v[2]
Max(a, b) == IF a >= b THEN a ELSE b

\* compute_activations returned from a call on a bundle of the 1-2-1 architecture
ReturnedFor(act) == status = "returned" /\ activations = act /\ WellShaped(created)

\* the hidden vector and the final output of the reference forward pass
RefHidden(act) ==
    [i \in 1 .. 2 |-> IF act = "relu" THEN Max(W1v[i] * input + b1v[i], 0)
                                      ELSE W1v[i] * input + b1v[i]]
RefFinal(act) ==
    IF act = "relu" THEN Max(Dot2(RefHidden(act), W2v) + b2v[1], 0)
                    ELSE Dot2(RefHidden(act), W2v) + b2v[1]

AllNegative(v) == \A i \in DOMAIN v : v[i] < 0
NoneNegative(v) == \A i \in DOMAIN v : v[i] >= 0
NonePositive(v) == \A i \in DOMAIN v : v[i] <= 0

\* C1 as stated: for any bundle whose W1 components are all strictly negative
\* and any x > 0, 'relu' returns an all-zero hidden vector and a zero final output.
C1_AsStated ==
    (ReturnedFor("relu") /\ AllNegative(W1v) /\ input > 0)
        => (hidden.data = <<0, 0>> /\ final.data = <<0>>)

\* C1 amended: the same when moreover no component of b1 is positive and b2 is
\* not positive (as with the zero biases of the reference configuration).
C1_SaturatedIsZero ==
    (ReturnedFor("relu") /\ AllNegative(W1v) /\ input > 0
        /\ NonePositive(b1v) /\ NonePositive(b2v))
        => (hidden.data = <<0, 0>> /\ final.data = <<0>>)

C1_Witness ==
    /\ ReturnedFor("relu") /\ AllNegative(W1v) /\ input > 0
    /\ b1v = <<0, 0>> /\ b2v = <<0>>
    /\ hidden.data = <<0, 0>> /\ final.data = <<0>>

\* C2 as stated: under 'linear', final = x * dot(W1, W2) + b2 for any bundle.
C2_AsStated ==
    ReturnedFor("linear") => final.data = <<input * Dot2(W1v, W2v) + b2v[1]>>

\* C2 amended: under 'linear', final = x * dot(W1, W2) + dot(b1, W2) + b2, which
\* is x * dot(W1, W2) + b2 when b1 is zero.
C2_LinearFinal ==
    ReturnedFor("linear") =>
        final.data = <<input * Dot2(W1v, W2v) + Dot2(b1v, W2v) + b2v[1]>>

C2_Witness ==
    /\ ReturnedFor("linear") /\ input # 0 /\ Dot2(W1v, W2v) # 0 /\ Dot2(b1v, W2v) # 0
    /\ final.data = <<input * Dot2(W1v, W2v) + Dot2(b1v, W2v) + b2v[1]>>

\* C3: for every input, every well-shaped bundle and each policy, the call
\* returns the pair (hidden, final) of the reference forward pass: hidden is
\* W1*x + b1, clamped at zero only under 'relu'; final is dot(hidden, W2) + b2
\* of that hidden, clamped at zero only under 'relu'.
C3_ReferenceForwardPass ==
    \A act \in {"relu", "linear"} :
        ReturnedFor(act) =>
            /\ hidden = [shape |-> <<1, 2>>, data |-> RefHidden(act)]
            /\ final = [shape |-> <<1, 1>>, data |-> <<RefFinal(act)>>]

\* a 'relu' call that clamped a hidden unit and not the other, and a final
\* output that is positive
C3_Witness ==
    /\ ReturnedFor("relu")
    /\ W1v[1] * input + b1v[1] < 0 /\ hidden.data[1] = 0
    /\ hidden.data[2] > 0 /\ final.data[1] > 0

\* C4 as stated: for x = 0 and any bundle, hidden = b1 and
\* final = dot(b1, W2) + b2 under either policy.
C4_AsStated ==
    \A act \in {"relu", "linear"} :
        (ReturnedFor(act) /\ input = 0) =>
            (hidden.data = b1v /\ final.data = <<Dot2(b1v, W2v) + b2v[1]>>)

\* C4 amended: for x = 0 that holds under 'linear' for any bundle, and under
\* 'relu' for the bundles with no negative component of b1 and with
\* dot(b1, W2) + b2 not negative (as when the biases are zero).
C4_ZeroInput ==
    \A act \in {"relu", "linear"} :
        (ReturnedFor(act) /\ input = 0
            /\ (act = "relu" => (NoneNegative(b1v) /\ Dot2(b1v, W2v) + b2v[1] >= 0)))
        => (hidden.data = b1v /\ final.data = <<Dot2(b1v, W2v) + b2v[1]>>)

C4_Witness ==
    /\ ReturnedFor("relu") /\ input = 0 /\ b1v[1] > 0 /\ b1v[2] > 0
    /\ hidden.data = b1v /\ final.data[1] > 0

\* C5 as stated: a call on a bundle whose shapes do not match the 1-2-1
\* architecture raises and returns no (hidden, final).
C5_AsStated ==
    (status # "made" /\ activations \in {"relu", "linear"} /\ ~WellShaped(created))
        => (status = "ValueError" /\ hidden = NoArray /\ final = NoArray)

\* C8 as stated: with b2 = 0, the 'linear' final output is
\* x * |W1| * |W2| * cos(theta), theta the angle between W1 and W2.  By the law
\* of cosines |W1 - W2|^2 = |W1|^2 + |W2|^2 - 2 |W1| |W2| cos(theta), so twice
\* that product is x * (|W1|^2 + |W2|^2 - |W1 - W2|^2).
NormSq(v) == v[1] * v[1] + v[2] * v[2]
Diff(u, v) == [i \in 1 .. 2 |-> u[i] - v[i]]
TwiceNormsCos(u, v) == NormSq(u) + NormSq(v) - NormSq(Diff(u, v))

C8_AsStated ==
    (ReturnedFor("linear") /\ b2v = <<0>>)
        => 2 * final.data[1] = input * TwiceNormsCos(W1v, W2v)

\* C8 amended: the same for the bundles with b2 = 0 and dot(b1, W2) = 0 (as
\* when b1 is zero).
C8_GeometricIdentity ==
    (ReturnedFor("linear") /\ b2v = <<0>> /\ Dot2(b1v, W2v) = 0)
        => 2 * final.data[1] = input * TwiceNormsCos(W1v, W2v)

C8_Witness ==
    /\ ReturnedFor("linear") /\ b2v = <<0>> /\ b1v = <<0, 0>>
    /\ input # 0 /\ final.data[1] # 0
    /\ 2 * final.data[1] = input * TwiceNormsCos(W1v, W2v)

\* C10: compute_activations leaves its bundle unchanged: after any sequence of
\* calls under any policy W1, b1, W2 and b2 hold the values they were made with.
C10_BundleUnchanged ==
    heap = created

\* a 'relu' call in which relu zeroed a negative element in place
C10_Witness ==
    /\ ReturnedFor("relu") /\ W1v[1] * input + b1v[1] < 0 /\ hidden.data[1] = 0
    /\ heap = created

----------------------------------------------------------------------------
(* The data simulation and split.  x is an array of shape (n_samples, 1),  *)
(* a sequence of rows of one element; y has shape (n_samples,).            *)

Ones(n) == [i \in 1 .. n |-> <<1>>]

\* for idx in range(n_samples): x[idx] *= y[idx], from index idx on
RECURSIVE ScaleRows(_, _, _)
ScaleRows(xs, ys, idx) ==
    IF idx > Len(xs) THEN xs
    ELSE ScaleRows([xs EXCEPT ![idx] = <<xs[idx][1] * ys[idx]>>], ys, idx + 1)

\* train_test_split(..., test_size=0.2): the test set holds ceil(0.2 * n)
\* samples and the training set the others
NTestRoundedDown(n) == n \div 5    \* a variant of NTest that rounds down
NTest(n) == (n + 4) \div 5
NTrain(n) == n - NTest(n)

\* the indices of a shuffled split: the first n_test indices of the
\* permutation are the test set, the following n_train the training set
IndTest(perm, n) == [k \in 1 .. NTest(n) |-> perm[k]]
\* a variant of IndTrain that starts at the last test index
IndTrainFromTestEnd(perm, n) == [k \in 1 .. NTrain(n) |-> perm[NTest(n) + k - 1]]
IndTrain(perm, n) == [k \in 1 .. NTrain(n) |-> perm[NTest(n) + k]]

\* a[ind]: the elements of a at the indices ind, in the order of ind
Take(a, ind) == [k \in 1 .. Len(ind) |-> a[ind[k]]]

InitData ==
    /\ n_samples \in -1 .. MaxN
    /\ x = <<>> /\ y = <<>>
    /\ ind_train = <<>> /\ ind_test = <<>>
    /\ x_train = <<>> /\ x_test = <<>> /\ y_train = <<>> /\ y_test = <<>>
    /\ dstatus = "start"

IdleFwd ==
    /\ heap = <<>> /\ created = <<>> /\ input = 0 /\ activations = ""
    /\ hidden = NoArray /\ final = NoArray /\ status = "idle"

\* "simulate data": numpy.ones raises ValueError for a negative dimension
Simulate ==
    /\ dstatus = "start"
    /\ IF n_samples < 0
       THEN /\ dstatus' = "ValueError"
            /\ UNCHANGED <<x, y>>
       ELSE /\ \E ys \in [1 .. n_samples -> YValues] :
                 /\ y' = ys
                 /\ x' = ScaleRows(Ones(n_samples), ys, 1)
            /\ dstatus' = "simulated"
    /\ UNCHANGED <<n_samples, ind_train, ind_test, x_train, x_test, y_train, y_test>>
    /\ UNCHANGED <<fwdvars, trainvars>>

\* "split data": train_test_split raises ValueError when the training set
\* would be empty, and otherwise indexes x and y with one shuffled split
Split ==
    /\ dstatus = "simulated"
    /\ IF NTrain(Len(x)) = 0
       THEN /\ dstatus' = "ValueError"
            /\ UNCHANGED <<ind_train, ind_test, x_train, x_test, y_train, y_test>>
       ELSE /\ \E perm \in Permutations(1 .. Len(x)) :
                 /\ ind_test' = IndTest(perm, Len(x))
                 /\ ind_train' = IndTrain(perm, Len(x))
            /\ x_train' = Take(x, ind_train')
            /\ x_test' = Take(x, ind_test')
            /\ y_train' = Take(y, ind_train')
            /\ y_test' = Take(y, ind_test')
            /\ dstatus' = "split"
    /\ UNCHANGED <<n_samples, x, y>>
    /\ UNCHANGED <<fwdvars, trainvars>>

NextData == Simulate \/ Split

InitD == IdleFwd /\ InitData /\ IdleTrain

SpecData == InitD /\ [][NextData]_vars

Range(f) == {f[k] : k \in DOMAIN f}
PairsEqual(xs, ys) == Len(xs) = Len(ys) /\ \A k \in DOMAIN xs : xs[k] = <<ys[k]>>

\* every simulated pair is in exactly one subset, and the subsets hold the
\* pairs at their indices
IsPartition ==
    /\ Range(ind_train) \cup Range(ind_test) = 1 .. n_samples
    /\ Len(ind_train) + Len(ind_test) = n_samples
    /\ x_train = Take(x, ind_train) /\ y_train = Take(y, ind_train)
    /\ x_test = Take(x, ind_test) /\ y_test = Take(y, ind_test)

\* C6 as stated: after simulation and split with sample count N the subsets
\* partition the N pairs, 80% of them in training and 20% in evaluation, and
\* every pair of both subsets has its input equal to its target.
C6_AsStated ==
    dstatus = "split" =>
        /\ IsPartition
        /\ 5 * Len(ind_train) = 4 * n_samples /\ 5 * Len(ind_test) = n_samples
        /\ PairsEqual(x_train, y_train) /\ PairsEqual(x_test, y_test)

\* C6 amended: the evaluation subset holds 0.2 * N pairs rounded up and the
\* training subset the other pairs, which is 20% and 80% when 5 divides N.
C6_PartitionRoundedUp ==
    dstatus = "split" =>
        /\ IsPartition
        /\ 5 * Len(ind_test) >= n_samples /\ 5 * (Len(ind_test) - 1) < n_samples
        /\ Len(ind_train) = n_samples - Len(ind_test)
        /\ (n_samples % 5 = 0 =>
              (5 * Len(ind_train) = 4 * n_samples /\ 5 * Len(ind_test) = n_samples))
        /\ PairsEqual(x_train, y_train) /\ PairsEqual(x_test, y_test)

\* a split of five pairs, not all equal, that moved a pair from its place
C6_Witness ==
    /\ dstatus = "split" /\ n_samples = 5
    /\ Len(ind_train) = 4 /\ Len(ind_test) = 1
    /\ ind_test[1] # 1 /\ y[1] # y[2] /\ x_train # SubSeq(x, 2, 5)

\* C7 as stated: the simulation and split ends in an error exactly for the
\* non-positive sample counts, and returns the two subsets for every positive one.
C7_AsStated ==
    /\ dstatus = "ValueError" => n_samples <= 0
    /\ dstatus = "split" => n_samples > 0

\* C7 amended: it ends in an error exactly for the sample counts below 2 (a
\* count of 1 leaves no training pair), and returns the two non-empty subsets
\* for every count from 2 on.
C7_ErrorBelowTwo ==
    /\ dstatus = "ValueError" => n_samples <= 1
    /\ dstatus = "split" => (n_samples >= 2 /\ Len(x_train) >= 1 /\ Len(x_test) >= 1)
    /\ dstatus = "start" => (n_samples >= 0 <=> ENABLED (Simulate /\ dstatus' = "simulated"))
    /\ dstatus = "simulated" => (n_samples >= 2 <=> ENABLED (Split /\ dstatus' = "split"))

\* the split of a single pair raised
C7_Witness ==
    dstatus = "ValueError" /\ n_samples = 1 /\ Len(x) = 1 /\ x_train = <<>>

----------------------------------------------------------------------------
(* The training: make_network, compile(optimizer='adam', loss='mae') and    *)
(* fit.  A network is a record of its four weight arrays.  The gradient of  *)
(* a batch is the sum of the gradients of its samples (batch size times the *)
(* gradient of the mean absolute error).  adam's first moment m is kept as  *)
(* the integer 10^t * m after t steps (m_t = 0.9 m_{t-1} + 0.1 g_t); its    *)
(* update of a weight has the sign of m and is zero exactly when m is, and  *)
(* is modelled as one unit in that direction.                               *)

Sign(v) == IF v > 0 THEN 1 ELSE IF v < 0 THEN -1 ELSE 0

RECURSIVE Pow10(_)
Pow10(n) == IF n = 0 THEN 1 ELSE 10 * Pow10(n - 1)

\* the activation and its derivative as backpropagation uses it
Activate(act, z) == IF act = "relu" /\ z < 0 THEN 0 ELSE z
\* a variant of Derivative that is one at zero
DerivativeOneAtZero(act, z) == IF act = "relu" /\ z < 0 THEN 0 ELSE 1
Derivative(act, z) == IF act = "relu" /\ z <= 0 THEN 0 ELSE 1

\* the forward pass of the network on the input xin
Forward(net, act, xin) ==
    LET z1 == [i \in 1 .. 2 |-> net.W1[i] * xin + net.b1[i]]
        h  == [i \in 1 .. 2 |-> Activate(act, z1[i])]
        z2 == Dot2(h, net.W2) + net.b2[1]
    IN  [z1 |-> z1, h |-> h, z2 |-> z2, out |-> Activate(act, z2)]

Abs(v) == IF v < 0 THEN 0 - v ELSE v

\* the absolute error of the network on the pair (xin, xin)
SampleLoss(net, act, xin) == Abs(Forward(net, act, xin).out - xin)

\* the gradient of that absolute error in the weights
SampleGradient(net, act, xin) ==
    LET f   == Forward(net, act, xin)
        dz2 == Sign(f.out - xin) * Derivative(act, f.z2)
        dz1 == [i \in 1 .. 2 |-> dz2 * net.W2[i] * Derivative(act, f.z1[i])]
    IN  [W1 |-> [i \in 1 .. 2 |-> dz1[i] * xin],
         b1 |-> dz1,
         W2 |-> [i \in 1 .. 2 |-> dz2 * f.h[i]],
         b2 |-> <<dz2>>]

ZeroNet == [W1 |-> <<0, 0>>, b1 |-> <<0, 0>>, W2 |-> <<0, 0>>, b2 |-> <<0>>]

\* a * p + b * q for two networks p and q, element by element
Combine(a, p, b, q) ==
    [W1 |-> [i \in 1 .. 2 |-> a * p.W1[i] + b * q.W1[i]],
     b1 |-> [i \in 1 .. 2 |-> a * p.b1[i] + b * q.b1[i]],
     W2 |-> [i \in 1 .. 2 |-> a * p.W2[i] + b * q.W2[i]],
     b2 |-> [i \in 1 .. 1 |-> a * p.b2[i] + b * q.b2[i]]]

\* the signs of the elements of a network's arrays
Signs(p) ==
    [W1 |-> [i \in 1 .. 2 |-> Sign(p.W1[i])], b1 |-> [i \in 1 .. 2 |-> Sign(p.b1[i])],
     W2 |-> [i \in 1 .. 2 |-> Sign(p.W2[i])], b2 |-> [i \in 1 .. 1 |-> Sign(p.b2[i])]]

RECURSIVE BatchGradient(_, _, _, _)
BatchGradient(net, act, data, batch) ==
    IF batch = {} THEN ZeroNet
    ELSE LET k == CHOOSE j \in batch : TRUE
         IN  Combine(1, SampleGradient(net, act, data[k]),
                     1, BatchGradient(net, act, data, batch \ {k}))

RECURSIVE BatchLoss(_, _, _, _)
BatchLoss(net, act, data, batch) ==
    IF batch = {} THEN 0
    ELSE LET k == CHOOSE j \in batch : TRUE
         IN  SampleLoss(net, act, data[k]) + BatchLoss(net, act, data, batch \ {k})

\* adam's moment after the step t with gradient g, and the weights after it
AdamMoment(m, g, t) == Combine(9, m, Pow10(t - 1), g)
AdamUpdate(net, m) == Combine(1, net, -1, Signs(m))

\* make_network: the kernels are drawn at random, the biases are zero
InitTrain ==
    /\ model \in [W1 : [1 .. 2 -> W1Values], b1 : {<<0, 0>>},
                   W2 : [1 .. 2 -> W2Values], b2 : {<<0>>}]
    /\ initial_weights = model
    /\ model_act \in {"relu", "linear"}
    /\ moment = ZeroNet
    /\ step = 0
    /\ epoch = 0
    /\ train_set \in [1 .. TrainSamples -> YValues]
    /\ pending = 1 .. TrainSamples
    /\ epoch_loss = 0
    /\ history = <<>>

Min(a, b) == IF a <= b THEN a ELSE b

\* the batches fit may take next: BatchSize of the samples the epoch has not
\* used yet, or all of them when fewer are left
Batches == { B \in SUBSET pending : Cardinality(B) = Min(BatchSize, Cardinality(pending)) }

\* one gradient step of fit on the batch B; the step that uses the last
\* samples of an epoch ends the epoch and reports its loss
TrainStep(B) ==
    /\ epoch < MaxEpochs
    /\ B \in Batches
    /\ \E g \in {BatchGradient(model, model_act, train_set, B)} :
       \E m \in {AdamMoment(moment, g, step + 1)} :
         /\ moment' = m
         /\ model' = AdamUpdate(model, m)
    /\ step' = step + 1
    /\ \E loss \in {epoch_loss + BatchLoss(model, model_act, train_set, B)} :
         IF pending = B
         THEN /\ history' = Append(history, loss)
              /\ epoch' = epoch + 1
              /\ epoch_loss' = 0
              /\ pending' = 1 .. TrainSamples
         ELSE /\ epoch_loss' = loss
              /\ pending' = pending \ B
              /\ UNCHANGED <<history, epoch>>
    /\ UNCHANGED <<initial_weights, model_act, train_set>>
    /\ UNCHANGED <<fwdvars, datavars>>

NextTrain == \E B \in SUBSET (1 .. TrainSamples) : TrainStep(B)

InitT == IdleFwd /\ IdleData /\ InitTrain

SpecTrain == InitT /\ [][NextTrain]_vars

\* the 'relu' network was made with every component of W1 negative and zero
\* biases, and every training input is positive
Saturated ==
    /\ model_act = "relu"
    /\ AllNegative(initial_weights.W1)
    /\ initial_weights.b1 = <<0, 0>> /\ initial_weights.b2 = <<0>>
    /\ \A k \in DOMAIN train_set : train_set[k] > 0

\* C9: from such a start every gradient step leaves the weights unchanged:
\* after any number of steps the weights are the initial weights and the loss
\* reported is the same at every epoch.
C9_TrainingStall ==
    Saturated =>
        /\ model = initial_weights
        /\ \A i, j \in DOMAIN history : history[i] = history[j]

\* two epochs were reported from such a start, with a loss that is not zero
C9_Witness ==
    /\ Saturated /\ step >= 2 /\ Len(history) >= 2
    /\ history[1] > 0 /\ history[2] = history[1]
    /\ model = initial_weights

====
